---- MODULE Spec2Model ----
(***************************************************************************)
(* Tice Creek calendar sync (scraper.py): the extraction pipeline          *)
(*   rendered markup -> parse_bw_widget_html -> records                    *)
(*                   -> deduplication (main)  -> filter_classes            *)
(*                   -> generate_ics          -> output file               *)
(*                                                                         *)
(* Text that the code inspects character by character (names, patterns)    *)
(* is a sequence of one-character strings.  Timestamp strings are only     *)
(* ever handed to datetime.fromisoformat, so they are atomic strings and   *)
(* fromisoformat is a table over the timestamps the model uses.            *)
(* Markup is a sequence of tokens: one token per tag or block that one of  *)
(* the regular expressions of parse_bw_widget_html can match.              *)
(***************************************************************************)
EXTENDS Integers, Sequences, FiniteSets, TLC

VARIABLES
    pc,            \* position in main() / in the extractor harness
    DISCOVER_MODE, \* "--discover" in sys.argv
    config,        \* load_config()
    page_idx,      \* number of SCHEDULE_PAGES already scraped
    all_classes,   \* main: records of all pages and frames, before line 446
    unique,        \* main: the deduplicated list (all_classes after line 446)
    filtered,      \* main: result of filter_classes
    output_file,   \* lines written to the output file (<<>> = not written)
    exit_code,     \* 0, or 1 after sys.exit(1)
    debug_json,    \* records dumped to debug/all_classes.json
    chunks,        \* extractor harness: the pieces the markup was built from
    html,          \* extractor harness: the markup (token sequence)
    parsed         \* extractor harness: outcome of parse_bw_widget_html(html)

vars == <<pc, DISCOVER_MODE, config, page_idx, all_classes, unique, filtered,
          output_file, exit_code, debug_json, chunks, html, parsed>>

(***************************************************************************)
(* Bounds                                                                  *)
(***************************************************************************)
MaxChunks == 3     \* pieces of markup handed to the extractor harness
MaxFrames == 1     \* embedded frames per page besides the main frame

(***************************************************************************)
(* Python str operations on character sequences                            *)
(***************************************************************************)
LowerLetters == <<"a","b","c","d","e","f","g","h","i","j","k","l","m",
                  "n","o","p","q","r","s","t","u","v","w","x","y","z">>
UpperLetters == <<"A","B","C","D","E","F","G","H","I","J","K","L","M",
                  "N","O","P","Q","R","S","T","U","V","W","X","Y","Z">>

IndexIn(c, letters) ==
    IF \E i \in 1..Len(letters) : letters[i] = c
    THEN CHOOSE i \in 1..Len(letters) : letters[i] = c
    ELSE 0

IsAlpha(c) == IndexIn(c, LowerLetters) > 0 \/ IndexIn(c, UpperLetters) > 0

lower_char(c) ==
    IF IndexIn(c, UpperLetters) > 0 THEN LowerLetters[IndexIn(c, UpperLetters)] ELSE c

upper_char(c) ==
    IF IndexIn(c, LowerLetters) > 0 THEN UpperLetters[IndexIn(c, LowerLetters)] ELSE c

\* str.lower()
str_lower(s) == [i \in 1..Len(s) |-> lower_char(s[i])]

IsSpace(c) == c \in {" ", "\n", "\t"}

\* str.strip(): drop leading and trailing whitespace
str_strip(s) ==
    LET idx == {i \in 1..Len(s) : ~IsSpace(s[i])}
    IN  IF idx = {} THEN <<>>
        ELSE LET lo == CHOOSE i \in idx : \A j \in idx : i <= j
                 hi == CHOOSE i \in idx : \A j \in idx : i >= j
             IN  SubSeq(s, lo, hi)

\* p in s  (substring test)
str_in(p, s) ==
    \E i \in 0..(Len(s) - Len(p)) : SubSeq(s, i + 1, i + Len(p)) = p

\* s.replace("_", " ")
replace_underscore(s) == [i \in 1..Len(s) |-> IF s[i] = "_" THEN " " ELSE s[i]]

\* str.title(): a letter after a non-letter is upper-cased, any other letter lower-cased
str_title(s) ==
    [i \in 1..Len(s) |->
        IF i = 1 \/ ~IsAlpha(s[i - 1]) THEN upper_char(s[i]) ELSE lower_char(s[i])]

(***************************************************************************)
(* datetime.fromisoformat over the timestamp strings of the model.         *)
(* ok = FALSE is ValueError.  sec is the wall-clock time in seconds since  *)
(* 2026-02-16T00:00; aware says whether the string carries a UTC offset.   *)
(***************************************************************************)
BadDatetime == [ok |-> FALSE, aware |-> FALSE, date |-> "", day |-> "", sec |-> 0]

NaiveMonday(sec) ==
    [ok |-> TRUE, aware |-> FALSE, date |-> "2026-02-16", day |-> "Monday", sec |-> sec]

fromisoformat(s) ==
    CASE s = "2026-02-16T08:00"       -> NaiveMonday(28800)
      [] s = "2026-02-16T09:00"       -> NaiveMonday(32400)
      [] s = "2026-02-16T09:00:00"    -> NaiveMonday(32400)
      [] s = "2026-02-16T09:00:30"    -> NaiveMonday(32430)
      [] s = "2026-02-16T09:45"       -> NaiveMonday(35100)
      [] s = "2026-02-16T17:00"       -> NaiveMonday(61200)
      [] s = "2026-02-16T09:45+00:00" -> [NaiveMonday(35100) EXCEPT !.aware = TRUE]
      [] OTHER                        -> BadDatetime

\* dt.hour
hour_of(dt) == dt.sec \div 3600

\* dt.strftime("%I:%M %p").lstrip("0"): 12-hour clock, minutes, AM/PM
strftime_12h(dt) ==
    LET h == hour_of(dt)
        h12 == IF h % 12 = 0 THEN 12 ELSE h % 12
    IN  <<h12, (dt.sec \div 60) % 60, IF h < 12 THEN "AM" ELSE "PM">>

\* int(td.total_seconds() / 60): truncation toward zero
minutes_trunc(seconds) ==
    IF seconds >= 0 THEN seconds \div 60 ELSE -((-seconds) \div 60)

(***************************************************************************)
(* Markup tokens.  Every token has the same fields:                        *)
(*   kind  "session"  <div class="bw-session" ...> opening tag             *)
(*         "time"     <time class=cls datetime=dt>  (dt = "" : no value)   *)
(*         "name"     <div class="bw-session__name">parts</div>            *)
(*         "staff"    <div class="bw-session__staff">parts</div>           *)
(*         "day"      <div class="bw-widget__day...                        *)
(*         "body"     </body>                                              *)
(*         "other"    any other markup                                     *)
(*   raw   value of data-bw-widget-mbo-class-name (<<>> = attribute absent)*)
(*   parts inline content: text, <span>text</span>, or a bare tag          *)
(***************************************************************************)
Tok(kind, raw, cls, dt, parts) ==
    [kind |-> kind, raw |-> raw, cls |-> cls, dt |-> dt, parts |-> parts]

SessionOpen(raw)   == Tok("session", raw, "", "", <<>>)
TimeTag(cls, dt)   == Tok("time", <<>>, cls, dt, <<>>)
NameBlock(parts)   == Tok("name", <<>>, "", "", parts)
StaffBlock(parts)  == Tok("staff", <<>>, "", "", parts)
DayMarker          == Tok("day", <<>>, "", "", <<>>)
BodyEnd            == Tok("body", <<>>, "", "", <<>>)
OtherMarkup        == Tok("other", <<>>, "", "", <<>>)

Text(chars) == [kind |-> "text", text |-> chars]
Span(chars) == [kind |-> "span", text |-> chars]
Tag         == [kind |-> "tag",  text |-> <<>>]

\* Concatenated text of inline content once tags are removed; the text of a
\* <span> element is removed too when drop_span (re.sub of line 97).
RECURSIVE strip_tags(_, _)
strip_tags(parts, drop_span) ==
    IF parts = <<>> THEN <<>>
    ELSE LET p == Head(parts)
             t == IF p.kind = "text" \/ (p.kind = "span" /\ ~drop_span)
                  THEN p.text ELSE <<>>
         IN  t \o strip_tags(Tail(parts), drop_span)

\* re.search / the leftmost match: the smallest position among the hits, 0 if none
FirstOf(hits) ==
    IF hits = {} THEN 0 ELSE CHOOSE j \in hits : \A k \in hits : j <= k

IsSessionOpen(t) == t.kind = "session"

\* variant: the lookahead lacks the </body> alternative
IsBoundary_no_body(t) == t.kind \in {"session", "day"}
\* the lookahead of session_pattern
IsBoundary(t) == t.kind \in {"session", "day", "body"}

\* re.findall(session_pattern, html, re.DOTALL): each match is an opening tag
\* and the shortest content that is followed by a boundary; the boundary is
\* not consumed, the scan resumes at it.
RECURSIVE findall_sessions(_, _)
findall_sessions(markup, i) ==
    LET j == FirstOf({p \in i..Len(markup) : IsSessionOpen(markup[p])})
        k == IF j = 0 THEN 0
             ELSE FirstOf({p \in (j + 1)..Len(markup) : IsBoundary(markup[p])})
    IN  IF j = 0 \/ k = 0 THEN <<>>
        ELSE <<[opening_tag |-> markup[j], content |-> SubSeq(markup, j + 1, k - 1)]>>
             \o findall_sessions(markup, k)

\* variant: the pattern matches a time tag of either class
search_datetime_any_class(content, cls) ==
    LET IsHit(t) == t.kind = "time" /\ t.dt # ""
        j == FirstOf({p \in 1..Len(content) : IsHit(content[p])})
    IN  IF j = 0 THEN "" ELSE content[j].dt

\* re.search(r'hc_xxxtime[^>]*datetime="([^"]+)"', content): first time tag of
\* the class that carries a non-empty datetime value; "" when there is none
search_datetime(content, cls) ==
    LET IsHit(t) == t.kind = "time" /\ t.cls = cls /\ t.dt # ""
        j == FirstOf({p \in 1..Len(content) : IsHit(content[p])})
    IN  IF j = 0 THEN "" ELSE content[j].dt

\* lines 92-101
display_name_of(content, raw_name) ==
    LET IsName(t) == t.kind = "name"
        j == FirstOf({p \in 1..Len(content) : IsName(content[p])})
        shown == IF j = 0 THEN <<>> ELSE str_strip(strip_tags(content[j].parts, TRUE))
    IN  IF shown # <<>> THEN shown ELSE str_title(replace_underscore(raw_name))

\* lines 103-108
instructor_of(content) ==
    LET IsStaff(t) == t.kind = "staff"
        j == FirstOf({p \in 1..Len(content) : IsStaff(content[p])})
    IN  IF j = 0 THEN <<>> ELSE str_strip(strip_tags(content[j].parts, FALSE))

\* Body of the for loop of parse_bw_widget_html for one match.
\*   status "skip"  : continue (no record)
\*          "ok"    : cls appended
\*          "raise" : end_dt - start_dt raises TypeError (naive vs. aware),
\*                    which the except ValueError clause does not catch
parse_session(m, label) ==
    LET raw_name  == m.opening_tag.raw
        start_iso == search_datetime(m.content, "hc_starttime")
        end_iso   == search_datetime(m.content, "hc_endtime")
        start_dt  == fromisoformat(start_iso)
        end_dt    == fromisoformat(end_iso)
        cls == [name       |-> display_name_of(m.content, raw_name),
                raw_name   |-> raw_name,
                start_iso  |-> start_iso,
                end_iso    |-> end_iso,
                date       |-> start_dt.date,
                day        |-> start_dt.day,
                time       |-> strftime_12h(start_dt),
                start_hour |-> hour_of(start_dt),
                instructor |-> instructor_of(m.content),
                source     |-> label]
    IN  IF start_iso = "" THEN [status |-> "skip", cls |-> cls]
        ELSE IF ~start_dt.ok THEN [status |-> "skip", cls |-> cls]
        ELSE IF end_iso = "" \/ ~end_dt.ok THEN [status |-> "ok", cls |-> cls]
        ELSE IF end_dt.aware # start_dt.aware THEN [status |-> "raise", cls |-> cls]
        ELSE [status |-> "ok",
              cls |-> cls @@ [end_time |-> strftime_12h(end_dt),
                              duration_minutes |-> minutes_trunc(end_dt.sec - start_dt.sec)]]

\* the for loop of parse_bw_widget_html over the outcomes of its iterations:
\* an exception ends the call, otherwise the records are appended in order
collect_classes(outcomes) ==
    LET IsOk(r) == r.status = "ok"
        kept == SelectSeq(outcomes, IsOk)
    IN  IF \E i \in 1..Len(outcomes) : outcomes[i].status = "raise"
        THEN [raised |-> TRUE, classes |-> <<>>]
        ELSE [raised |-> FALSE, classes |-> [i \in 1..Len(kept) |-> kept[i].cls]]

session_outcomes(matches, label) ==
    [i \in 1..Len(matches) |-> parse_session(matches[i], label)]

\* parse_bw_widget_html(html, label): raised = an exception leaves the function
parse_bw_widget_html(markup, label) ==
    collect_classes(session_outcomes(findall_sessions(markup, 1), label))

(***************************************************************************)
(* dict.get(key, default) on a record that holds only the keys present     *)
(***************************************************************************)
get(d, key, default) == IF key \in DOMAIN d THEN d[key] ELSE default

(***************************************************************************)
(* scrape_page / run_discovery.  A frame is [detached, markup]: detached   *)
(* frames make frame.content() raise, which the loop catches.              *)
(***************************************************************************)
\* the records one embedded frame adds: none when frame.content() or the
\* parse raises (except Exception)
frame_classes(detached, r) == IF detached \/ r.raised THEN <<>> ELSE r.classes

RECURSIVE extend_all(_, _)
extend_all(acc, lists) ==
    IF lists = <<>> THEN acc ELSE extend_all(acc \o Head(lists), Tail(lists))

\* the loop over page.frames
scrape_frames(frames, label, acc) ==
    extend_all(acc, [i \in 1..Len(frames) |->
                        frame_classes(frames[i].detached,
                                      parse_bw_widget_html(frames[i].markup, label))])

\* the main frame is parsed outside any try: r is the outcome of that parse
page_classes(r, frames, label) ==
    IF r.raised THEN [raised |-> TRUE, classes |-> <<>>]
    ELSE [raised |-> FALSE, classes |-> scrape_frames(frames, label, r.classes)]

\* scrape_page(page, url, label)
scrape_page(main_markup, frames, label) ==
    page_classes(parse_bw_widget_html(main_markup, label), frames, label)

\* run_discovery(page, url, label): same extraction, main frame then frames
run_discovery(main_markup, frames, label) ==
    page_classes(parse_bw_widget_html(main_markup, label), frames, label)

(***************************************************************************)
(* Deduplication, main lines 435-446                                       *)
(***************************************************************************)
\* variant: the instructor is part of the key
dedupe_key_with_instructor(cls) ==
    <<get(cls, "start_iso", ""), get(cls, "name", <<>>), get(cls, "instructor", <<>>)>>

dedupe_key(cls) == <<get(cls, "start_iso", ""), get(cls, "name", <<>>)>>

RECURSIVE dedupe_loop(_, _, _)
dedupe_loop(classes, seen, uniq) ==
    IF classes = <<>> THEN uniq
    ELSE LET cls == Head(classes)
             key == dedupe_key(cls)
         IN  IF key \notin seen
             THEN dedupe_loop(Tail(classes), seen \cup {key}, Append(uniq, cls))
             ELSE dedupe_loop(Tail(classes), seen, uniq)

\* variant: nothing is dropped
dedupe_nothing(classes) == classes

dedupe(classes) == dedupe_loop(classes, {}, <<>>)

(***************************************************************************)
(* filter_classes                                                          *)
(***************************************************************************)
\* [c.lower().strip() for c in patterns if c]
RECURSIVE normalize_patterns(_)
normalize_patterns(patterns) ==
    IF patterns = <<>> THEN <<>>
    ELSE (IF Head(patterns) # <<>>
          THEN <<str_strip(str_lower(Head(patterns)))>> ELSE <<>>)
         \o normalize_patterns(Tail(patterns))

any_in(patterns, combined) ==
    \E i \in 1..Len(patterns) : str_in(patterns[i], combined)

\* variant: the upper hour bound is inclusive (hour > latest)
filter_keeps_latest_inclusive(cls, cfg) ==
    LET include  == normalize_patterns(get(cfg, "include_classes", <<>>))
        exclude  == normalize_patterns(get(cfg, "exclude_classes", <<>>))
        combined == str_lower(get(cls, "name", <<>>)) \o <<" ">>
                    \o str_lower(get(cls, "raw_name", <<>>))
    IN  IF include # <<>> /\ ~any_in(include, combined) THEN FALSE
        ELSE IF exclude # <<>> /\ any_in(exclude, combined) THEN FALSE
        ELSE IF "start_hour" \in DOMAIN cls /\ "earliest_hour" \in DOMAIN cfg
                /\ cls.start_hour < cfg.earliest_hour THEN FALSE
        ELSE IF "start_hour" \in DOMAIN cls /\ "latest_hour" \in DOMAIN cfg
                /\ cls.start_hour > cfg.latest_hour THEN FALSE
        ELSE TRUE

\* one iteration of the loop of filter_classes: TRUE = filtered.append(cls)
filter_keeps(cls, cfg) ==
    LET include  == normalize_patterns(get(cfg, "include_classes", <<>>))
        exclude  == normalize_patterns(get(cfg, "exclude_classes", <<>>))
        combined == str_lower(get(cls, "name", <<>>)) \o <<" ">>
                    \o str_lower(get(cls, "raw_name", <<>>))
    IN  IF include # <<>> /\ ~any_in(include, combined) THEN FALSE
        ELSE IF exclude # <<>> /\ any_in(exclude, combined) THEN FALSE
        ELSE IF "start_hour" \in DOMAIN cls /\ "earliest_hour" \in DOMAIN cfg
                /\ cls.start_hour < cfg.earliest_hour THEN FALSE
        ELSE IF "start_hour" \in DOMAIN cls /\ "latest_hour" \in DOMAIN cfg
                /\ cls.start_hour >= cfg.latest_hour THEN FALSE
        ELSE TRUE

RECURSIVE filter_loop(_, _, _)
filter_loop(classes, cfg, kept) ==
    IF classes = <<>> THEN kept
    ELSE filter_loop(Tail(classes), cfg,
                     IF filter_keeps(Head(classes), cfg)
                     THEN Append(kept, Head(classes)) ELSE kept)

\* variant: the early return hands back the still empty result list
filter_classes_returns_filtered(classes, cfg) ==
    IF /\ normalize_patterns(get(cfg, "include_classes", <<>>)) = <<>>
       /\ normalize_patterns(get(cfg, "exclude_classes", <<>>)) = <<>>
       /\ "earliest_hour" \notin DOMAIN cfg
       /\ "latest_hour" \notin DOMAIN cfg
    THEN <<>>
    ELSE filter_loop(classes, cfg, <<>>)

filter_classes(classes, cfg) ==
    IF /\ normalize_patterns(get(cfg, "include_classes", <<>>)) = <<>>
       /\ normalize_patterns(get(cfg, "exclude_classes", <<>>)) = <<>>
       /\ "earliest_hour" \notin DOMAIN cfg
       /\ "latest_hour" \notin DOMAIN cfg
    THEN classes
    ELSE filter_loop(classes, cfg, <<>>)

(***************************************************************************)
(* generate_ics.  A line of the document is a tuple whose first element    *)
(* is the property name; the document is the sequence of lines that        *)
(* "\r\n".join(lines) writes.                                              *)
(***************************************************************************)
DefaultDuration == 45

LOCATION == "Tice Creek Fitness Center, 1751 Tice Creek Dr, Walnut Creek, CA 94595"

\* dt.strftime("%Y%m%dT%H%M%S") of (date, seconds after that date's midnight)
strftime_basic(date, sec) == <<date, sec>>

\* md5(uid_str)[:16]: the hash is represented by the string that is hashed
uid_of(name, date, start_iso) == <<name, date, start_iso>>

WaterWords == << <<"a","q","u","a">>, <<"w","a","t","e","r">>,
                 <<"s","w","i","m">>, <<"p","o","o","l">> >>

ics_header(cal_name) ==
    << <<"BEGIN", "VCALENDAR">>, <<"VERSION", "2.0">>,
       <<"PRODID", "-//Tice Creek Calendar Sync//EN">>,
       <<"X-WR-CALNAME", cal_name>>,
       <<"X-WR-TIMEZONE", "America/Los_Angeles">>,
       <<"CALSCALE", "GREGORIAN">>, <<"METHOD", "PUBLISH">>,
       <<"BEGIN", "VTIMEZONE">>, <<"TZID", "America/Los_Angeles">>,
       <<"BEGIN", "DAYLIGHT">>, <<"TZOFFSETFROM", "-0800">>, <<"TZOFFSETTO", "-0700">>,
       <<"TZNAME", "PDT">>,
       <<"DTSTART", "19700308T020000">>,
       <<"RRULE", "FREQ=YEARLY;BYMONTH=3;BYDAY=2SU">>, <<"END", "DAYLIGHT">>,
       <<"BEGIN", "STANDARD">>, <<"TZOFFSETFROM", "-0700">>, <<"TZOFFSETTO", "-0800">>,
       <<"TZNAME", "PST">>,
       <<"DTSTART", "19701101T020000">>,
       <<"RRULE", "FREQ=YEARLY;BYMONTH=11;BYDAY=1SU">>, <<"END", "STANDARD">>,
       <<"END", "VTIMEZONE">> >>

\* variant: no fallback for a non-positive duration
event_duration_no_fallback(cls, default_dur) ==
    get(cls, "duration_minutes", default_dur)

\* variant: the fallback test is dur < 0
event_duration_strict(cls, default_dur) ==
    LET dur == get(cls, "duration_minutes", default_dur)
    IN  IF dur < 0 THEN default_dur ELSE dur

\* lines 259-262
event_duration(cls, default_dur) ==
    LET dur == get(cls, "duration_minutes", default_dur)
    IN  IF dur <= 0 THEN default_dur ELSE dur

\* body of the for loop of generate_ics: the lines one record contributes
ics_event(cls, default_dur, now_utc) ==
    LET start_iso == get(cls, "start_iso", "")
        start == fromisoformat(start_iso)
        dur == event_duration(cls, default_dur)
        name == cls.name
        instructor == get(cls, "instructor", <<>>)
        source == get(cls, "source", <<>>)
        is_water == any_in(WaterWords, str_lower(name))
        description ==
            (IF instructor # <<>> THEN <<instructor>> ELSE <<>>)
            \o (IF source # <<>> THEN <<str_title(replace_underscore(source))>> ELSE <<>>)
    IN  IF start_iso = "" \/ ~start.ok THEN <<>>
        ELSE << <<"BEGIN", "VEVENT">>,
                <<"UID", uid_of(name, get(cls, "date", ""), start_iso)>>,
                <<"DTSTAMP", now_utc>>,
                <<"DTSTART;TZID=America/Los_Angeles", strftime_basic(start.date, start.sec)>>,
                <<"DTEND;TZID=America/Los_Angeles",
                  strftime_basic(start.date, start.sec + 60 * dur)>>,
                <<"SUMMARY", IF is_water THEN "swimmer" ELSE "weightlifter", name>>,
                <<"DESCRIPTION", description, "Auto-synced from ticefitnesscenter.com">>,
                <<"LOCATION", LOCATION>>,
                <<"STATUS", "CONFIRMED">>, <<"TRANSP", "TRANSPARENT">>,
                <<"END", "VEVENT">> >>

\* variant: entry blocks are emitted last record first
RECURSIVE ics_events_reversed(_, _, _)
ics_events_reversed(classes, default_dur, now_utc) ==
    IF classes = <<>> THEN <<>>
    ELSE ics_events_reversed(Tail(classes), default_dur, now_utc)
         \o ics_event(Head(classes), default_dur, now_utc)

RECURSIVE ics_events(_, _, _)
ics_events(classes, default_dur, now_utc) ==
    IF classes = <<>> THEN <<>>
    ELSE ics_event(Head(classes), default_dur, now_utc)
         \o ics_events(Tail(classes), default_dur, now_utc)

generate_ics(classes, cfg, now_utc) ==
    ics_header(get(cfg, "calendar_name", "Tice Creek Fitness - Mom's Classes"))
    \o ics_events(classes, get(cfg, "default_class_duration_minutes", DefaultDuration), now_utc)
    \o << <<"END", "VCALENDAR">> >>

(***************************************************************************)
(* Inputs: names, patterns, session fragments, markup, configurations      *)
(***************************************************************************)
GentleYoga == <<"G","e","n","t","l","e"," ","Y","o","g","a">>
SpinClass  == <<"S","p","i","n"," ","C","l","a","s","s">>
AquaFit    == <<"A","q","u","a"," ","F","i","t">>
gentle_yoga == <<"g","e","n","t","l","e","_","y","o","g","a">>
aqua_fit   == <<"a","q","u","a","_","f","i","t">>
CATHY      == <<"C","A","T","H","Y">>
PAT        == <<"P","A","T">>
TypeLabel  == <<"C","l","a","s","s">>

\* SCHEDULE_PAGES keys, in insertion order
SCHEDULE_PAGES == << <<"g","r","o","u","p","_","f","i","t","n","e","s","s">>,
                     <<"a","q","u","a","t","i","c","s">> >>

\* A piece of markup: a session fragment in the shape of lines 57-62, or a
\* single non-session token.  start = "" : the start <time> has no datetime;
\* end = "" : no end <time>; name = <<>> : no name block; staff likewise.
Session(raw, start, end, name, staff) ==
    [kind |-> "session", raw |-> raw, start |-> start, end |-> end,
     name |-> name, staff |-> staff]
Piece(kind) == [kind |-> kind, raw |-> <<>>, start |-> "", end |-> "",
                name |-> <<>>, staff |-> <<>>]

Render(c) ==
    IF c.kind = "session"
    THEN <<SessionOpen(c.raw), TimeTag("hc_starttime", c.start)>>
         \o (IF c.end # "" THEN <<TimeTag("hc_endtime", c.end)>> ELSE <<>>)
         \o (IF c.name # <<>> THEN <<NameBlock(c.name)>> ELSE <<>>)
         \o (IF c.staff # <<>> THEN <<StaffBlock(c.staff)>> ELSE <<>>)
    ELSE <<Tok(c.kind, <<>>, "", "", <<>>)>>

RECURSIVE RenderAll(_)
RenderAll(cs) == IF cs = <<>> THEN <<>> ELSE Render(Head(cs)) \o RenderAll(Tail(cs))

YogaSession ==
    Session(gentle_yoga, "2026-02-16T09:00", "2026-02-16T09:45",
            <<Span(TypeLabel), Text(<<" ">> \o GentleYoga \o <<" ">>)>>,
            <<Tag, Text(CATHY), Tag>>)
SpinSession ==
    Session(<<>>, "2026-02-16T08:00", "2026-02-16T09:00", <<Text(SpinClass)>>, <<>>)
YogaAgain ==        \* same start and name as YogaSession, other instructor
    Session(gentle_yoga, "2026-02-16T09:00", "2026-02-16T09:45",
            <<Text(GentleYoga)>>, <<Text(PAT)>>)
NoStart ==
    Session(aqua_fit, "", "2026-02-16T09:45", <<Text(AquaFit)>>, <<Text(CATHY)>>)
BadStart ==
    Session(aqua_fit, "not-a-date", "2026-02-16T09:45", <<Text(AquaFit)>>, <<>>)
BadEnd ==           \* no name block: the name falls back to the raw name
    Session(aqua_fit, "2026-02-16T09:00", "not-a-date", <<>>, <<Span(PAT)>>)
AwareEnd ==
    Session(aqua_fit, "2026-02-16T09:00", "2026-02-16T09:45+00:00", <<Text(AquaFit)>>, <<>>)
EndBeforeStart ==
    Session(aqua_fit, "2026-02-16T17:00", "2026-02-16T09:45", <<Text(AquaFit)>>, <<>>)
HalfMinute ==       \* other spelling of 09:00, ends 30 seconds later
    Session(gentle_yoga, "2026-02-16T09:00:00", "2026-02-16T09:00:30",
            <<Text(GentleYoga)>>, <<>>)
NoEnd ==
    Session(<<>>, "2026-02-16T17:00", "", <<Text(SpinClass)>>, <<Text(PAT)>>)

ChunkSet ==
    {YogaSession, SpinSession, NoStart, BadStart, BadEnd, AwareEnd,
     EndBeforeStart, HalfMinute, NoEnd, Piece("day"), Piece("body"), Piece("other")}

\* Markup of a main frame and of embedded frames in a run of main
MainMarkups ==
    { RenderAll(<<Piece("other"), Piece("body")>>),
      RenderAll(<<YogaSession, SpinSession, HalfMinute, Piece("body")>>),
      RenderAll(<<AwareEnd, Piece("body")>>) }

FrameContents ==
    { [detached |-> FALSE,
       markup |-> RenderAll(<<Piece("day"), YogaAgain, EndBeforeStart, NoEnd, Piece("body")>>)],
      [detached |-> FALSE, markup |-> RenderAll(<<AwareEnd, Piece("body")>>)],
      [detached |-> TRUE, markup |-> <<>>] }

yoga   == <<"y","o","g","a">>
Yoga   == <<"Y","o","g","a">>
gentle == <<"g","e","n","t","l","e">>

\* what load_config() can return ({} when config.yaml is absent)
Configs ==
    { <<>>,
      [include_classes |-> <<yoga>>],
      [include_classes |-> <<yoga>>, exclude_classes |-> <<gentle>>],
      [earliest_hour |-> 9, latest_hour |-> 17],
      [include_classes |-> <<Yoga>>, default_class_duration_minutes |-> 30],
      [exclude_classes |-> << <<>> >>, include_classes |-> <<>>],
      [calendar_name |-> "Beth's Classes"],
      [latest_hour |-> 17, default_class_duration_minutes |-> 0] }

NowSet == {"20261105T000000Z", "20261105T000001Z"}

NotParsed == [raised |-> FALSE, classes |-> <<>>]

(***************************************************************************)
(* main()                                                                  *)
(***************************************************************************)
Init ==
    /\ pc = "scrape"
    /\ DISCOVER_MODE \in BOOLEAN
    /\ config \in Configs
    /\ page_idx = 0
    /\ all_classes = <<>>
    /\ unique = <<>>
    /\ filtered = <<>>
    /\ output_file = <<>>
    /\ exit_code = 0
    /\ debug_json = <<>>
    /\ chunks = <<>>
    /\ html = <<>>
    /\ parsed = NotParsed

\* the frames a page can have besides its main frame
FrameLists == UNION {[1..n -> FrameContents] : n \in 0..MaxFrames}

\* what scrape_page / run_discovery returns for the page being visited
page_result(main_markup, frames) ==
    IF DISCOVER_MODE
    THEN run_discovery(main_markup, frames, SCHEDULE_PAGES[page_idx + 1])
    ELSE scrape_page(main_markup, frames, SCHEDULE_PAGES[page_idx + 1])

\* one iteration of the loop over SCHEDULE_PAGES (lines 419-428); r is what
\* scrape_page / run_discovery returned
ScrapePage(r) ==
    /\ pc = "scrape"
    /\ ~r.raised
    /\ all_classes' = all_classes \o r.classes
    /\ page_idx' = page_idx + 1
    /\ pc' = IF page_idx + 1 = Len(SCHEDULE_PAGES) THEN "scraped" ELSE "scrape"
    /\ UNCHANGED <<DISCOVER_MODE, config, unique, filtered, output_file,
                   exit_code, debug_json, chunks, html, parsed>>

\* the same iteration when the parse of the main frame raises: the exception
\* leaves main
ScrapePageRaises(r) ==
    /\ pc = "scrape"
    /\ r.raised
    /\ pc' = "crashed"
    /\ UNCHANGED <<DISCOVER_MODE, config, page_idx, all_classes, unique, filtered,
                   output_file, exit_code, debug_json, chunks, html, parsed>>

\* lines 435-451: deduplicate, rebind all_classes, dump the raw data
Deduplicate ==
    /\ pc = "scraped"
    /\ unique' = dedupe(all_classes)
    /\ debug_json' = unique'
    /\ pc' = "deduped"
    /\ UNCHANGED <<DISCOVER_MODE, config, page_idx, all_classes, filtered,
                   output_file, exit_code, chunks, html, parsed>>

\* lines 453-473
DiscoveryReturn ==
    /\ pc = "deduped"
    /\ DISCOVER_MODE
    /\ pc' = "returned"
    /\ UNCHANGED <<DISCOVER_MODE, config, page_idx, all_classes, unique, filtered,
                   output_file, exit_code, debug_json, chunks, html, parsed>>

\* lines 475-482
NoClassesExit ==
    /\ pc = "deduped"
    /\ ~DISCOVER_MODE
    /\ unique = <<>>
    /\ \E now_utc \in NowSet : output_file' = generate_ics(<<>>, config, now_utc)
    /\ exit_code' = 1
    /\ pc' = "exited"
    /\ UNCHANGED <<DISCOVER_MODE, config, page_idx, all_classes, unique, filtered,
                   debug_json, chunks, html, parsed>>

\* lines 492-493
FilterStep ==
    /\ pc = "deduped"
    /\ ~DISCOVER_MODE
    /\ unique # <<>>
    /\ filtered' = filter_classes(unique, config)
    /\ pc' = "filtered"
    /\ UNCHANGED <<DISCOVER_MODE, config, page_idx, all_classes, unique,
                   output_file, exit_code, debug_json, chunks, html, parsed>>

\* lines 504-506
WriteCalendar ==
    /\ pc = "filtered"
    /\ \E now_utc \in NowSet : output_file' = generate_ics(filtered, config, now_utc)
    /\ pc' = "done"
    /\ UNCHANGED <<DISCOVER_MODE, config, page_idx, all_classes, unique, filtered,
                   exit_code, debug_json, chunks, html, parsed>>

Next ==
    \/ \E main_markup \in MainMarkups, frames \in FrameLists :
          ScrapePage(page_result(main_markup, frames))
    \/ \E main_markup \in MainMarkups, frames \in FrameLists :
          ScrapePageRaises(page_result(main_markup, frames))
    \/ Deduplicate
    \/ DiscoveryReturn
    \/ NoClassesExit
    \/ FilterStep
    \/ WriteCalendar

Spec == Init /\ [][Next]_vars

(***************************************************************************)
(* The extractor on its own: markup is assembled piece by piece, then      *)
(* parse_bw_widget_html is applied to it.                                  *)
(***************************************************************************)
ParseLabel == SCHEDULE_PAGES[2]

InitParse ==
    /\ pc = "build"
    /\ DISCOVER_MODE = FALSE
    /\ config = <<>>
    /\ page_idx = 0
    /\ all_classes = <<>>
    /\ unique = <<>>
    /\ filtered = <<>>
    /\ output_file = <<>>
    /\ exit_code = 0
    /\ debug_json = <<>>
    /\ chunks = <<>>
    /\ html = <<>>
    /\ parsed = NotParsed

AddChunk ==
    /\ pc = "build"
    /\ Len(chunks) < MaxChunks
    /\ \E c \in ChunkSet :
         /\ chunks' = Append(chunks, c)
         /\ html' = html \o Render(c)
    /\ UNCHANGED <<pc, DISCOVER_MODE, config, page_idx, all_classes, unique,
                   filtered, output_file, exit_code, debug_json, parsed>>

RunParse ==
    /\ pc = "build"
    /\ parsed' = parse_bw_widget_html(html, ParseLabel)
    /\ pc' = "parsed"
    /\ UNCHANGED <<DISCOVER_MODE, config, page_idx, all_classes, unique,
                   filtered, output_file, exit_code, debug_json, chunks, html>>

NextParse == AddChunk \/ RunParse

SpecParse == InitParse /\ [][NextParse]_vars

(***************************************************************************)
(* Vocabulary of the properties                                            *)
(***************************************************************************)
\* k-th smallest element of a finite set of integers
Nth(S, k) == CHOOSE i \in S : Cardinality({j \in S : j <= i}) = k

\* the subsequence of x at the indices in idx, in order
Pick(x, idx) == [k \in 1..Cardinality(idx) |-> x[Nth(idx, k)]]

\* positions of the BEGIN:VEVENT lines of a document, and the value tuple of
\* the first line named key inside the i-th entry block
EventStarts(doc) ==
    {i \in 1..Len(doc) : doc[i][1] = "BEGIN" /\ doc[i][2] = "VEVENT"}
EventLine(doc, i, key) ==
    LET b == Nth(EventStarts(doc), i)
        l == CHOOSE j \in b..Len(doc) :
                 /\ doc[j][1] = key
                 /\ \A m \in b..(j - 1) : doc[m][1] # key
    IN  doc[l]

\* block names of BEGIN lines still open after the whole document is read;
\* <<"mismatch">> as soon as an END line does not close the innermost block
RECURSIVE OpenBlocks(_, _)
OpenBlocks(doc, stack) ==
    IF doc = <<>> THEN stack
    ELSE LET l == Head(doc)
         IN  CASE l[1] = "BEGIN" -> OpenBlocks(Tail(doc), Append(stack, l[2]))
               [] l[1] = "END" ->
                    IF stack # <<>> /\ stack[Len(stack)] = l[2]
                    THEN OpenBlocks(Tail(doc), SubSeq(stack, 1, Len(stack) - 1))
                    ELSE <<"mismatch">>
               [] OTHER -> OpenBlocks(Tail(doc), stack)

Configured(cfg, key) == key \in DOMAIN cfg
\* the patterns configured under key: the non-empty entries of the list
PatternsOf(cfg, key) ==
    LET NonEmpty(q) == q # <<>>
    IN  IF key \in DOMAIN cfg THEN SelectSeq(cfg[key], NonEmpty) ELSE <<>>
Combined(cls) == str_lower(cls.name) \o <<" ">> \o str_lower(cls.raw_name)

NonEmptyConfig(cfg) ==
    \/ PatternsOf(cfg, "include_classes") # <<>>
    \/ PatternsOf(cfg, "exclude_classes") # <<>>
    \/ Configured(cfg, "earliest_hour")
    \/ Configured(cfg, "latest_hour")

HourAccepted(cls, cfg) ==
    /\ Configured(cfg, "earliest_hour") => cls.start_hour >= cfg.earliest_hour
    /\ Configured(cfg, "latest_hour") => cls.start_hour < cfg.latest_hour

\* acceptance with the patterns taken as they are configured
AcceptedAsConfigured(cls, cfg) ==
    LET inc == PatternsOf(cfg, "include_classes")
        exc == PatternsOf(cfg, "exclude_classes")
    IN  /\ inc = <<>> \/ \E i \in 1..Len(inc) : str_in(inc[i], Combined(cls))
        /\ ~\E i \in 1..Len(exc) : str_in(exc[i], Combined(cls))
        /\ HourAccepted(cls, cfg)

\* the configured patterns, lower-cased and trimmed
EffectivePatterns(cfg, key) ==
    LET ps == PatternsOf(cfg, key)
    IN  {str_strip(str_lower(ps[i])) : i \in 1..Len(ps)}

AcceptedNormalized(cls, cfg) ==
    LET inc == EffectivePatterns(cfg, "include_classes")
        exc == EffectivePatterns(cfg, "exclude_classes")
    IN  /\ inc = {} \/ \E q \in inc : str_in(q, Combined(cls))
        /\ ~\E q \in exc : str_in(q, Combined(cls))
        /\ HourAccepted(cls, cfg)

Filtered == pc \in {"filtered", "done"}

(***************************************************************************)
(* C1  filter_classes                                                      *)
(***************************************************************************)
\* C1 as stated: with a non-empty configuration, filter_classes returns, in
\* input order, exactly the records for which some configured include pattern
\* (if any is configured) and no configured exclude pattern is a substring of
\* lowercase(name + " " + raw name), and whose start_hour is within
\* [earliest_hour, latest_hour).
C1_AsStated ==
    (Filtered /\ NonEmptyConfig(config)) =>
        filtered = Pick(unique, {i \in 1..Len(unique) :
                                    AcceptedAsConfigured(unique[i], config)})

\* C1 amended: the same, with each configured pattern lower-cased and trimmed
\* before it is matched.
C1_FilterAccepts ==
    (Filtered /\ NonEmptyConfig(config)) =>
        filtered = Pick(unique, {i \in 1..Len(unique) :
                                    AcceptedNormalized(unique[i], config)})

\* an include and an exclude pattern are configured, a record matching the
\* include pattern is rejected by the exclude pattern
C1_Witness ==
    /\ pc = "filtered"
    /\ PatternsOf(config, "include_classes") # <<>>
    /\ PatternsOf(config, "exclude_classes") # <<>>
    /\ \E i \in 1..Len(unique) :
          /\ \E q \in EffectivePatterns(config, "include_classes") :
                str_in(q, Combined(unique[i]))
          /\ \E q \in EffectivePatterns(config, "exclude_classes") :
                str_in(q, Combined(unique[i]))
          /\ \A j \in 1..Len(filtered) : filtered[j] # unique[i]

(***************************************************************************)
(* C7  filter no-op                                                        *)
(***************************************************************************)
\* C7: with no include patterns, no exclude patterns, no earliest_hour and no
\* latest_hour configured, filter_classes returns its input unchanged.
C7_EmptyConfigNoOp ==
    (Filtered /\ ~NonEmptyConfig(config)) => filtered = unique

C7_Witness ==
    /\ pc = "filtered"
    /\ ~NonEmptyConfig(config)
    /\ Len(unique) >= 3
    /\ \E i \in 1..Len(unique) : unique[i].start_hour < 9

(***************************************************************************)
(* C2  deduplication                                                       *)
(***************************************************************************)
IdentityKey(cls) == <<cls.start_iso, cls.name>>
FirstOccurrences(x) ==
    Pick(x, {i \in 1..Len(x) : \A j \in 1..(i - 1) : IdentityKey(x[j]) # IdentityKey(x[i])})

Deduplicated == pc \in {"deduped", "returned", "exited", "filtered", "done"}

\* C2: deduplication returns exactly the first occurrence of each identity key
\* (start timestamp string, display name), in first-seen order, whatever the
\* instructor and source; it is idempotent and never lengthens its input.
C2_Dedupe ==
    Deduplicated =>
        /\ unique = FirstOccurrences(all_classes)
        /\ dedupe(unique) = unique
        /\ Len(unique) <= Len(all_classes)

\* two scraped records share a key but differ in instructor; one was dropped
C2_Witness ==
    /\ pc = "deduped"
    /\ Len(unique) < Len(all_classes)
    /\ \E i, j \in 1..Len(all_classes) :
          /\ i < j
          /\ IdentityKey(all_classes[i]) = IdentityKey(all_classes[j])
          /\ all_classes[i].instructor # all_classes[j].instructor

(***************************************************************************)
(* C3, C4, C8  the extractor                                               *)
(***************************************************************************)
IsSessionChunk(c) == c.kind = "session"
Sessions(cs) == SelectSeq(cs, IsSessionChunk)

\* the canonical shape of lines 57-62: start and end timestamps that parse as
\* local date-times without offset, and a name block
WellFormed(c) ==
    /\ fromisoformat(c.start).ok /\ ~fromisoformat(c.start).aware
    /\ fromisoformat(c.end).ok /\ ~fromisoformat(c.end).aware
    /\ c.name # <<>>

\* every session fragment is followed by another session, a day marker or </body>
Terminated(cs) ==
    \A i \in 1..Len(cs) :
        cs[i].kind = "session" =>
            \E j \in (i + 1)..Len(cs) : cs[j].kind \in {"session", "day", "body"}

\* C3: when every session fragment of the markup is well formed and ends at
\* the next session, at a day marker or at </body>, the extractor returns one
\* record per fragment, in the order of the fragments.
C3_OneRecordPerFragment ==
    (pc = "parsed" /\ Terminated(chunks) /\ \A i \in 1..Len(chunks) :
         chunks[i].kind = "session" => WellFormed(chunks[i]))
    => /\ ~parsed.raised
       /\ Len(parsed.classes) = Len(Sessions(chunks))
       /\ \A i \in 1..Len(parsed.classes) :
             /\ parsed.classes[i].start_iso = Sessions(chunks)[i].start
             /\ parsed.classes[i].end_iso = Sessions(chunks)[i].end
             /\ parsed.classes[i].raw_name = Sessions(chunks)[i].raw

\* two well-formed fragments with different (start, name), the last one
\* closed by </body>
C3_Witness ==
    /\ pc = "parsed"
    /\ Len(chunks) = 3
    /\ WellFormed(chunks[1]) /\ WellFormed(chunks[2])
    /\ chunks[1].kind = "session" /\ chunks[2].kind = "session"
    /\ chunks[3].kind = "body"
    /\ Len(parsed.classes) = 2
    /\ IdentityKey(parsed.classes[1]) # IdentityKey(parsed.classes[2])

\* C4 as stated: the extractor never raises; a record whose end timestamp
\* could not be used carries neither end_time nor duration_minutes.
C4_AsStated ==
    pc = "parsed" =>
        /\ ~parsed.raised
        /\ \A i \in 1..Len(parsed.classes) :
              ~fromisoformat(parsed.classes[i].end_iso).ok =>
                  /\ "end_time" \notin DOMAIN parsed.classes[i]
                  /\ "duration_minutes" \notin DOMAIN parsed.classes[i]

UsableStart(c) == c.kind = "session" /\ c.start # "" /\ fromisoformat(c.start).ok

\* C8: every returned record has a start timestamp that is present and
\* parses, and there are no more records than fragments with such a start:
\* a fragment without one contributes no record, whatever else it carries.
C8_StartGate ==
    pc = "parsed" =>
        /\ \A i \in 1..Len(parsed.classes) :
              /\ parsed.classes[i].start_iso # ""
              /\ fromisoformat(parsed.classes[i].start_iso).ok
        /\ Len(parsed.classes) <= Cardinality({i \in 1..Len(chunks) : UsableStart(chunks[i])})

\* a fragment without start timestamp but with valid end, name and class-name
\* attribute sits next to a fragment that yields a record
C8_Witness ==
    /\ pc = "parsed"
    /\ \E i \in 1..Len(chunks) :
          /\ chunks[i].kind = "session" /\ chunks[i].start = ""
          /\ fromisoformat(chunks[i].end).ok /\ chunks[i].name # <<>>
          /\ \E j \in (i + 1)..Len(chunks) : chunks[j].kind \in {"day", "body"}
    /\ Len(parsed.classes) = 1

(***************************************************************************)
(* C5, C6, C9, C10  the written calendar                                   *)
(***************************************************************************)
\* the records handed to generate_ics for the document in output_file
Serialized == IF pc = "done" THEN filtered ELSE <<>>
Written == pc \in {"done", "exited"}

ConfiguredDefault ==
    IF "default_class_duration_minutes" \in DOMAIN config
    THEN config.default_class_duration_minutes ELSE 45

StartSec(cls) == fromisoformat(cls.start_iso).sec
EndUsable(cls) == cls.end_iso # "" /\ fromisoformat(cls.end_iso).ok
ComputedMinutes(cls) == minutes_trunc(fromisoformat(cls.end_iso).sec - StartSec(cls))

\* seconds after midnight written as DTSTART / DTEND of the i-th entry
DtStart(doc, i) == EventLine(doc, i, "DTSTART;TZID=America/Los_Angeles")[2][2]
DtEnd(doc, i)   == EventLine(doc, i, "DTEND;TZID=America/Los_Angeles")[2][2]

\* C5: in the written document the entry of a record without usable end
\* timestamp, or whose end is not later than its start, ends at start + the
\* configured default duration (45 minutes when none is configured); the
\* entry of a record with a positive computed duration ends at start + that
\* duration.
C5_DurationFallback ==
    pc = "done" =>
        /\ Cardinality(EventStarts(output_file)) = Len(filtered)
        /\ \A i \in 1..Len(filtered) :
              LET r == filtered[i]
              IN  /\ DtStart(output_file, i) = StartSec(r)
                  /\ (~EndUsable(r) \/ fromisoformat(r.end_iso).sec <= StartSec(r))
                        => DtEnd(output_file, i) = StartSec(r) + 60 * ConfiguredDefault
                  /\ (EndUsable(r) /\ ComputedMinutes(r) > 0)
                        => DtEnd(output_file, i) = StartSec(r) + 60 * ComputedMinutes(r)

\* the calendar holds a record that ends before it starts, one without end
\* and one with a positive duration
C5_Witness ==
    /\ pc = "done"
    /\ \E i \in 1..Len(filtered) :
          EndUsable(filtered[i]) /\ fromisoformat(filtered[i].end_iso).sec < StartSec(filtered[i])
    /\ \E i \in 1..Len(filtered) : filtered[i].end_iso = ""
    /\ \E i \in 1..Len(filtered) : EndUsable(filtered[i]) /\ ComputedMinutes(filtered[i]) > 0

\* C6: the document starts with BEGIN:VCALENDAR and ends with END:VCALENDAR,
\* every BEGIN is closed by its END, there is one timezone block, and after it
\* and before the footer one entry block per input record, in input order.
C6_OneEntryPerRecord ==
    Written =>
        LET doc == output_file
            tz  == {i \in 1..Len(doc) : doc[i][1] = "BEGIN" /\ doc[i][2] = "VTIMEZONE"}
            tzend == {i \in 1..Len(doc) : doc[i][1] = "END" /\ doc[i][2] = "VTIMEZONE"}
            evend == {i \in 1..Len(doc) : doc[i][1] = "END" /\ doc[i][2] = "VEVENT"}
        IN  /\ doc[1] = <<"BEGIN", "VCALENDAR">>
            /\ doc[Len(doc)] = <<"END", "VCALENDAR">>
            /\ OpenBlocks(doc, <<>>) = <<>>
            /\ Cardinality(tz) = 1 /\ Cardinality(tzend) = 1
            /\ \A b \in EventStarts(doc) : \A e \in tzend : e < b
            /\ \A e \in evend : e < Len(doc)
            /\ Cardinality(EventStarts(doc)) = Len(Serialized)
            /\ Cardinality(evend) = Len(Serialized)
            /\ \A i \in 1..Len(Serialized) :
                  /\ EventLine(doc, i, "SUMMARY")[3] = Serialized[i].name
                  /\ EventLine(doc, i, "UID")[2][3] = Serialized[i].start_iso
                  /\ DtStart(doc, i) = StartSec(Serialized[i])

\* a calendar of at least two records whose first and last differ
C6_Witness ==
    /\ pc = "done"
    /\ Len(filtered) >= 2
    /\ IdentityKey(filtered[1]) # IdentityKey(filtered[Len(filtered)])

Scraped == pc \in {"scraped", "deduped", "returned", "exited", "filtered", "done"}

\* C9 as stated: every record the extractor created carries a strictly
\* positive duration in minutes.
C9_AsStated ==
    Scraped =>
        \A i \in 1..Len(all_classes) :
            /\ "duration_minutes" \in DOMAIN all_classes[i]
            /\ all_classes[i].duration_minutes > 0

\* C9 amended: a record leaves the extractor with duration_minutes exactly
\* when its end timestamp parses, and then it is end minus start in whole
\* minutes, zero and negative values included; the duration of its calendar
\* entry is that value when positive and the configured default otherwise,
\* hence strictly positive whenever the configured default is positive.
C9_EntryDurationPositive ==
    /\ Scraped =>
          \A i \in 1..Len(all_classes) :
              LET r == all_classes[i]
              IN  /\ ("duration_minutes" \in DOMAIN r) <=> EndUsable(r)
                  /\ EndUsable(r) => r.duration_minutes = ComputedMinutes(r)
    /\ pc = "done" =>
          \A i \in 1..Len(filtered) :
              LET r == filtered[i]
                  d == DtEnd(output_file, i) - DtStart(output_file, i)
              IN  /\ d = 60 * (IF "duration_minutes" \in DOMAIN r /\ r.duration_minutes > 0
                               THEN r.duration_minutes ELSE ConfiguredDefault)
                  /\ ConfiguredDefault > 0 => d > 0

\* the calendar holds records with a zero, a negative and no duration, and
\* the configured default is positive
C9_Witness ==
    /\ pc = "done"
    /\ ConfiguredDefault > 0
    /\ \E i \in 1..Len(filtered) :
          "duration_minutes" \in DOMAIN filtered[i] /\ filtered[i].duration_minutes = 0
    /\ \E i \in 1..Len(filtered) :
          "duration_minutes" \in DOMAIN filtered[i] /\ filtered[i].duration_minutes < 0
    /\ \E i \in 1..Len(filtered) : "duration_minutes" \notin DOMAIN filtered[i]

\* the stages of main run in the order deduplicate, filter, serialize
StagesInOrder ==
    /\ pc \in {"scrape", "scraped", "crashed"} => unique = <<>>
    /\ pc \in {"scrape", "scraped", "crashed", "deduped", "returned", "exited"} => filtered = <<>>
    /\ pc \notin {"done", "exited"} => output_file = <<>>

\* the (start, display name) pair an entry shows: DTSTART and the SUMMARY name
ShownKey(doc, i) == <<DtStart(doc, i), EventLine(doc, i, "SUMMARY")[3]>>
\* the (start timestamp string, display name) pair an entry was made from
SourceKey(doc, i) == <<EventLine(doc, i, "UID")[2][3], EventLine(doc, i, "SUMMARY")[3]>>

Survivors ==
    LET u == FirstOccurrences(all_classes)
    IN  Pick(u, {i \in 1..Len(u) : AcceptedNormalized(u[i], config)})

EntriesAreSurvivors ==
    /\ Cardinality(EventStarts(output_file)) = Len(Survivors)
    /\ \A i \in 1..Len(Survivors) :
          /\ SourceKey(output_file, i) = IdentityKey(Survivors[i])
          /\ DtStart(output_file, i) = StartSec(Survivors[i])

\* C10 as stated: in a normal run that scraped a record, the written calendar
\* holds exactly the records surviving deduplication then filtering, in
\* first-seen order, no two entries have the same start time and display
\* name, and the stages run in the order deduplicate, filter, serialize.
C10_AsStated ==
    /\ StagesInOrder
    /\ pc = "done" =>
          /\ EntriesAreSurvivors
          /\ \A i, j \in 1..Cardinality(EventStarts(output_file)) :
                i # j => ShownKey(output_file, i) # ShownKey(output_file, j)

\* C10 amended: the same, where no two entries were made from records with
\* the same start timestamp string and display name (two entries may show
\* the same start time when the source spelled one instant in two ways).
C10_CalendarIsDedupedThenFiltered ==
    /\ StagesInOrder
    /\ pc = "done" =>
          /\ EntriesAreSurvivors
          /\ \A i, j \in 1..Cardinality(EventStarts(output_file)) :
                i # j => SourceKey(output_file, i) # SourceKey(output_file, j)

\* a normal run whose pages repeated a record, and whose calendar is not empty
C10_Witness ==
    /\ pc = "done"
    /\ ~DISCOVER_MODE
    /\ Len(unique) < Len(all_classes)
    /\ Len(filtered) < Len(unique)
    /\ Len(filtered) >= 2

====
